---- MODULE Spec2Model ----
(***************************************************************************)
(* Subscription service of Kulibyka/effectiveMobile: the PostgreSQL       *)
(* storage adapter (table subscriptions), the Service on top of it and    *)
(* the month-overlap summation of Service.Sum.                            *)
(***************************************************************************)
EXTENDS Integers, Sequences, FiniteSets, TLC

(* ------------------------------------------------------------------ *)
(* Bounds of the model                                                  *)
(* ------------------------------------------------------------------ *)
\* calendar months offered to Sum: the windows and the rows' months
NumSumMonths == 3
\* prices of the rows Sum reads are 1 .. MaxPrice
MaxPrice == 2
\* calendar months offered to List: the filters and the rows' months
NumListMonths == 2
\* calendar months of the rows that List pages through
NumPageMonths == 3
\* the largest limit and the largest offset handed to List
MaxPage == 2
\* .up.sql files in the migrations directory
NumMigrations == 3
\* runs of the migrator
MaxRuns == 3

(* ------------------------------------------------------------------ *)
(* time.Time restricted to dates: year, month, day                      *)
(* ------------------------------------------------------------------ *)
\* the zero time.Time, January 1 of year 1
ZeroTime == [year |-> 1, month |-> 1, day |-> 1]

\* the k-th month from November 2023 on, as time.Parse(MonthLayout, ...) yields
\* it: the first day of the month
MonthAt(k) ==
    [year |-> 2023 + ((10 + k) \div 12), month |-> ((10 + k) % 12) + 1, day |-> 1]

Before(a, b) ==
    \/ a.year < b.year
    \/ a.year = b.year /\ a.month < b.month
    \/ a.year = b.year /\ a.month = b.month /\ a.day < b.day

After(a, b) == Before(b, a)

\* SQL comparison of two DATE values, start_month <= $n and end_month >= $n
DateLE(a, b) == ~Before(b, a)

(* ------------------------------------------------------------------ *)
(* Domain values.  A Go pointer is a sequence: <<>> is nil, <<v>> is &v *)
(* ------------------------------------------------------------------ *)
ErrNone == "nil"
ErrNotFound == "subscription not found"
\* any other error of the driver, wrapped with the operation name
ErrStorage == "storage.postgresql"

ServiceNames == {"netflix", "yandex"}
UserIDs == {1, 2}
\* the ids the table generates, in this order (uuid_generate_v4 never repeats)
IDs == {1, 2}
\* prices and months offered to Create and Update; -1 violates CHECK (price >= 0)
Prices == {-1, 0, 1}
Months == {MonthAt(k) : k \in 0 .. 1}

Opt(S) == {<<>>} \cup {<<v>> : v \in S}

\* domain.Subscription{}: id and user id are the empty UUID, written 0
ZeroSubscription ==
    [ID |-> 0, ServiceName |-> "", Price |-> 0, UserID |-> 0,
     StartMonth |-> ZeroTime, EndMonth |-> <<>>]

CreateInputs(M) ==
    [ServiceName : ServiceNames, Price : Prices, UserID : UserIDs,
     StartMonth : M, EndMonth : Opt(M)]

UpdateInputs(M) ==
    [ServiceName : ServiceNames, Price : Prices, StartMonth : M, EndMonth : Opt(M)]

(* ------------------------------------------------------------------ *)
(* Table subscriptions and the storage adapter.  The table is a        *)
(* function from the ids of its rows to the rows.                       *)
(* ------------------------------------------------------------------ *)
\* variant: the table without CHECK (end_month IS NULL OR end_month >= start_month)
TableCheckPriceOnly(row) == row.Price >= 0

\* CHECK (price >= 0) and CHECK (end_month IS NULL OR end_month >= start_month)
TableCheck(row) ==
    /\ row.Price >= 0
    /\ (row.EndMonth = <<>> \/ DateLE(row.StartMonth, row.EndMonth[1]))

\* variant: the INSERT leaves end_month out
CreateSubscriptionDropsEnd(tbl, newId, input) ==
    LET row == [ID |-> newId, ServiceName |-> input.ServiceName,
                Price |-> input.Price, UserID |-> input.UserID,
                StartMonth |-> input.StartMonth, EndMonth |-> <<>>]
    IN IF TableCheck(row)
       THEN [table |-> (newId :> row) @@ tbl, sub |-> row, err |-> ErrNone]
       ELSE [table |-> tbl, sub |-> ZeroSubscription, err |-> ErrStorage]

\* INSERT ... RETURNING: the row gets the generated id; a CHECK violation is
\* an error of the driver and inserts nothing
CreateSubscription(tbl, newId, input) ==
    LET row == [ID |-> newId, ServiceName |-> input.ServiceName,
                Price |-> input.Price, UserID |-> input.UserID,
                StartMonth |-> input.StartMonth, EndMonth |-> input.EndMonth]
    IN IF TableCheck(row)
       THEN [table |-> (newId :> row) @@ tbl, sub |-> row, err |-> ErrNone]
       ELSE [table |-> tbl, sub |-> ZeroSubscription, err |-> ErrStorage]

\* SELECT ... WHERE id = $1
GetSubscription(tbl, id) ==
    IF id \in DOMAIN tbl
    THEN [sub |-> tbl[id], err |-> ErrNone]
    ELSE [sub |-> ZeroSubscription, err |-> ErrNotFound]

\* variant: an upsert, the row is written whether or not the id exists
UpdateSubscriptionUpsert(tbl, id, input) ==
    LET row == [ID |-> id, ServiceName |-> input.ServiceName,
                Price |-> input.Price, UserID |-> 1,
                StartMonth |-> input.StartMonth, EndMonth |-> input.EndMonth]
    IN IF TableCheck(row)
       THEN [table |-> (id :> row) @@ tbl, sub |-> row, err |-> ErrNone]
       ELSE [table |-> tbl, sub |-> ZeroSubscription, err |-> ErrStorage]

\* variant: end_month = COALESCE($4, end_month), a nil input keeps the old end
UpdateSubscriptionKeepsEnd(tbl, id, input) ==
    IF id \notin DOMAIN tbl
    THEN [table |-> tbl, sub |-> ZeroSubscription, err |-> ErrNotFound]
    ELSE LET row == [tbl[id] EXCEPT !.ServiceName = input.ServiceName,
                                      !.Price = input.Price,
                                      !.StartMonth = input.StartMonth,
                                      !.EndMonth = IF input.EndMonth = <<>>
                                                   THEN @ ELSE input.EndMonth]
         IN IF TableCheck(row)
            THEN [table |-> [tbl EXCEPT ![id] = row], sub |-> row, err |-> ErrNone]
            ELSE [table |-> tbl, sub |-> ZeroSubscription, err |-> ErrStorage]

\* UPDATE ... SET service_name, price, start_month, end_month WHERE id = $5
\* RETURNING: no row gives sql.ErrNoRows, a CHECK violation a driver error
UpdateSubscription(tbl, id, input) ==
    IF id \notin DOMAIN tbl
    THEN [table |-> tbl, sub |-> ZeroSubscription, err |-> ErrNotFound]
    ELSE LET row == [tbl[id] EXCEPT !.ServiceName = input.ServiceName,
                                      !.Price = input.Price,
                                      !.StartMonth = input.StartMonth,
                                      !.EndMonth = input.EndMonth]
         IN IF TableCheck(row)
            THEN [table |-> [tbl EXCEPT ![id] = row], sub |-> row, err |-> ErrNone]
            ELSE [table |-> tbl, sub |-> ZeroSubscription, err |-> ErrStorage]

Without(tbl, id) == [i \in DOMAIN tbl \ {id} |-> tbl[i]]

\* variant: RowsAffected is not looked at
DeleteSubscriptionSilent(tbl, id) ==
    [table |-> Without(tbl, id), err |-> ErrNone]

\* DELETE ... WHERE id = $1, ErrNotFound when no row was affected
DeleteSubscription(tbl, id) ==
    IF id \in DOMAIN tbl
    THEN [table |-> Without(tbl, id), err |-> ErrNone]
    ELSE [table |-> tbl, err |-> ErrNotFound]

\* the sequences of all the rows of S, each once
Orderings(S) ==
    {s \in [1 .. Cardinality(S) -> S] : \A i, j \in DOMAIN s : i # j => s[i] # s[j]}

\* variant: end_month > $n, a subscription ending in the window's first month
\* is left out
SelectedStrictEnd(row, filter) ==
    /\ (filter.UserID # <<>> => row.UserID = filter.UserID[1])
    /\ (filter.ServiceName # <<>> => row.ServiceName = filter.ServiceName[1])
    /\ (filter.StartMonthFrom # <<>> => DateLE(filter.StartMonthFrom[1], row.StartMonth))
    /\ (filter.StartMonthTo # <<>> => DateLE(row.StartMonth, filter.StartMonthTo[1]))
    /\ ((filter.ActivePeriodFrom # <<>> /\ filter.ActivePeriodTo # <<>>) =>
            /\ DateLE(row.StartMonth, filter.ActivePeriodTo[1])
            /\ (row.EndMonth = <<>>
                \/ Before(filter.ActivePeriodFrom[1], row.EndMonth[1])))

\* variant: start_month > $n, the lower bound of the start range is exclusive
SelectedExclusiveFrom(row, filter) ==
    /\ (filter.UserID # <<>> => row.UserID = filter.UserID[1])
    /\ (filter.ServiceName # <<>> => row.ServiceName = filter.ServiceName[1])
    /\ (filter.StartMonthFrom # <<>> => Before(filter.StartMonthFrom[1], row.StartMonth))
    /\ (filter.StartMonthTo # <<>> => DateLE(row.StartMonth, filter.StartMonthTo[1]))
    /\ ((filter.ActivePeriodFrom # <<>> /\ filter.ActivePeriodTo # <<>>) =>
            /\ DateLE(row.StartMonth, filter.ActivePeriodTo[1])
            /\ (row.EndMonth = <<>>
                \/ DateLE(filter.ActivePeriodFrom[1], row.EndMonth[1])))

\* the WHERE clause ListSubscriptions builds: each condition only when supplied,
\* the overlap pair only when both ends of the active period are
Selected(row, filter) ==
    /\ (filter.UserID # <<>> => row.UserID = filter.UserID[1])
    /\ (filter.ServiceName # <<>> => row.ServiceName = filter.ServiceName[1])
    /\ (filter.StartMonthFrom # <<>> => DateLE(filter.StartMonthFrom[1], row.StartMonth))
    /\ (filter.StartMonthTo # <<>> => DateLE(row.StartMonth, filter.StartMonthTo[1]))
    /\ ((filter.ActivePeriodFrom # <<>> /\ filter.ActivePeriodTo # <<>>) =>
            /\ DateLE(row.StartMonth, filter.ActivePeriodTo[1])
            /\ (row.EndMonth = <<>>
                \/ DateLE(filter.ActivePeriodFrom[1], row.EndMonth[1])))

\* variant: no ORDER BY, the rows come in any order
OrderByNothing(S) == Orderings(S)

\* ORDER BY start_month: rows of equal start_month come in any order
OrderByStartMonth(S) ==
    {s \in Orderings(S) :
        \A i, j \in DOMAIN s : i < j => DateLE(s[i].StartMonth, s[j].StartMonth)}

\* variant: LIMIT cuts the rows first and OFFSET skips among what is left
LimitOffsetLimitFirst(s, filter) ==
    LET head == IF filter.Limit > 0 /\ filter.Limit < Len(s)
                THEN SubSeq(s, 1, filter.Limit)
                ELSE s
        from == IF filter.Offset > 0 THEN filter.Offset + 1 ELSE 1
    IN SubSeq(head, from, Len(head))

\* OFFSET when filter.Offset > 0, then LIMIT when filter.Limit > 0
LimitOffset(s, filter) ==
    LET from == IF filter.Offset > 0 THEN filter.Offset + 1 ELSE 1
        rest == SubSeq(s, from, Len(s))
    IN IF filter.Limit > 0 /\ filter.Limit < Len(rest)
       THEN SubSeq(rest, 1, filter.Limit)
       ELSE rest

\* the results the query of ListSubscriptions may give (the error is nil)
ListSubscriptions(tbl, filter) ==
    LET rows == {tbl[i] : i \in DOMAIN tbl}
    IN {LimitOffset(s, filter) :
            s \in OrderByStartMonth({row \in rows : Selected(row, filter)})}

(* ------------------------------------------------------------------ *)
(* Service.Sum                                                          *)
(* ------------------------------------------------------------------ *)
\* variant: the subscription's start, whatever the window's
maxTimeFirst(a, b) == a

maxTime(a, b) == IF After(a, b) THEN a ELSE b

\* variant: the end month is not counted
monthsBetweenExclusive(start, end) ==
    LET y == end.year - start.year
        m == end.month - start.month
        months == y * 12 + m
    IN IF months < 0 THEN 0 ELSE months

monthsBetween(start, end) ==
    LET y == end.year - start.year
        m == end.month - start.month
        months == y * 12 + m + 1
    IN IF months < 0 THEN 0 ELSE months

\* variant: the subscription's own end whenever it has one
SubEndUnclamped(sub, input) ==
    IF sub.EndMonth # <<>> THEN sub.EndMonth[1] ELSE input.PeriodEnd

\* the end of the subscription inside the window: lines 115-118 of the loop
SubEnd(sub, input) ==
    IF sub.EndMonth # <<>> /\ Before(sub.EndMonth[1], input.PeriodEnd)
    THEN sub.EndMonth[1]
    ELSE input.PeriodEnd

\* the months the loop bills one candidate for; 0 when it skips it
BilledMonths(sub, input) ==
    LET overlapStart == maxTime(sub.StartMonth, input.PeriodStart)
        subEnd == SubEnd(sub, input)
    IN IF After(overlapStart, subEnd)
       THEN 0
       ELSE monthsBetween(overlapStart, subEnd)

\* the loop over the candidates, total starting at 0
RECURSIVE SumLoop(_, _)
SumLoop(subs, input) ==
    IF subs = <<>>
    THEN 0
    ELSE Head(subs).Price * BilledMonths(Head(subs), input) + SumLoop(Tail(subs), input)

\* variant: no candidate is reported as a missing subscription
SumResultEmptyIsNotFound(subs, input) ==
    IF subs = <<>>
    THEN [total |-> 0, err |-> ErrNotFound]
    ELSE [total |-> SumLoop(subs, input), err |-> ErrNone]

\* what Sum returns once the Repository has answered with subs
SumResult(subs, input) == [total |-> SumLoop(subs, input), err |-> ErrNone]

\* the ListFilter Sum hands to the Repository
SumListFilter(input) ==
    [UserID |-> input.UserID, ServiceName |-> input.ServiceName,
     StartMonthFrom |-> <<>>, StartMonthTo |-> <<>>,
     ActivePeriodFrom |-> <<input.PeriodStart>>,
     ActivePeriodTo |-> <<input.PeriodEnd>>,
     Limit |-> 0, Offset |-> 0]

(* ------------------------------------------------------------------ *)
(* State                                                                *)
(* ------------------------------------------------------------------ *)
VARIABLES
    table,    \* the rows of subscriptions, by id
    nextId,   \* the ids 1 .. nextId-1 have been generated
    res,      \* the last Service call: its operation, arguments and results
    clients,  \* the Service calls of concurrent clients, by client
    migrator  \* cmd/migrator: schema_migrations and the run in progress

vars == <<table, nextId, res, clients, migrator>>

NoCall == [op |-> "none", err |-> ErrNone]

\* no concurrent client
NoClients == <<>>

\* the migrator is not part of the running service
NoMigrator == [pc |-> "off"]

Init ==
    /\ table = <<>>
    /\ nextId = 1
    /\ res = NoCall
    /\ clients = NoClients
    /\ migrator = NoMigrator

\* Service.Create: Repository.CreateSubscription, the zero subscription on error
Create(input) ==
    /\ nextId \in IDs
    /\ LET r == CreateSubscription(table, nextId, input)
       IN /\ table' = r.table
          /\ nextId' = IF r.err = ErrNone THEN nextId + 1 ELSE nextId
          /\ res' = [op |-> "Create", input |-> input, sub |-> r.sub, err |-> r.err]
    /\ UNCHANGED <<clients, migrator>>

\* Service.Get
Get(id) ==
    /\ LET r == GetSubscription(table, id)
       IN res' = [op |-> "Get", id |-> id, sub |-> r.sub, err |-> r.err]
    /\ UNCHANGED <<table, nextId, clients, migrator>>

\* Service.Update
Update(id, input) ==
    /\ LET r == UpdateSubscription(table, id, input)
       IN /\ table' = r.table
          /\ res' = [op |-> "Update", id |-> id, input |-> input,
                     sub |-> r.sub, err |-> r.err]
    /\ UNCHANGED <<nextId, clients, migrator>>

\* Service.Delete
Delete(id) ==
    /\ LET r == DeleteSubscription(table, id)
       IN /\ table' = r.table
          /\ res' = [op |-> "Delete", id |-> id, err |-> r.err]
    /\ UNCHANGED <<nextId, clients, migrator>>

Next ==
    \/ \E input \in CreateInputs(Months) : Create(input)
    \/ \E id \in IDs : Get(id)
    \/ \E id \in IDs, input \in UpdateInputs(Months) : Update(id, input)
    \/ \E id \in IDs : Delete(id)

Spec == Init /\ [][Next]_vars

(* ------------------------------------------------------------------ *)
(* Queries.  List and Sum read the table and leave it alone, so one    *)
(* call from every table is every call: the query specifications start *)
(* from any table the CHECK constraints allow (each is what Create     *)
(* calls leave behind) and make one call.                               *)
(* ------------------------------------------------------------------ *)
\* Service.List: the Repository's result as it is
List(filter) ==
    /\ \E subs \in ListSubscriptions(table, filter) :
           res' = [op |-> "List", filter |-> filter, subs |-> subs, err |-> ErrNone]
    /\ UNCHANGED <<table, nextId, clients, migrator>>

\* Service.Sum: one ListSubscriptions call, then the loop
Sum(input) ==
    /\ \E subs \in ListSubscriptions(table, SumListFilter(input)) :
           res' = [op |-> "Sum", input |-> input, subs |-> subs,
                   total |-> SumResult(subs, input).total,
                   err |-> SumResult(subs, input).err]
    /\ UNCHANGED <<table, nextId, clients, migrator>>

\* the tables of at most two rows over the given values
RowsOver(P, M) ==
    {row \in [ID : {0}, ServiceName : ServiceNames, Price : P, UserID : UserIDs,
              StartMonth : M, EndMonth : Opt(M)] : TableCheck(row)}

TablesOver(P, M) ==
    UNION {{[i \in 1 .. n |-> [rows[i] EXCEPT !.ID = i]] :
                rows \in [1 .. n -> RowsOver(P, M)]} : n \in 0 .. 2}

SumMonths == {MonthAt(k) : k \in 1 .. NumSumMonths}

SummaryFilters ==
    [UserID : {<<>>, <<1>>}, ServiceName : {<<>>, <<"netflix">>},
     PeriodStart : SumMonths, PeriodEnd : SumMonths]

InitSum ==
    /\ table \in TablesOver(1 .. MaxPrice, SumMonths)
    /\ nextId = Len(table) + 1
    /\ res = NoCall
    /\ clients = NoClients
    /\ migrator = NoMigrator

NextSum ==
    /\ res = NoCall
    /\ \E input \in SummaryFilters : Sum(input)

SpecSum == InitSum /\ [][NextSum]_vars

ListMonths == {MonthAt(k) : k \in 1 .. NumListMonths}

ListFilters ==
    [UserID : {<<>>, <<1>>}, ServiceName : {<<>>, <<"netflix">>},
     StartMonthFrom : Opt(ListMonths), StartMonthTo : Opt(ListMonths),
     ActivePeriodFrom : Opt(ListMonths), ActivePeriodTo : Opt(ListMonths),
     Limit : {0, 1}, Offset : {0, 1}]

InitList ==
    /\ table \in TablesOver({1}, ListMonths)
    /\ nextId = Len(table) + 1
    /\ res = NoCall
    /\ clients = NoClients
    /\ migrator = NoMigrator

NextList ==
    /\ res = NoCall
    /\ \E filter \in ListFilters : List(filter)

SpecList == InitList /\ [][NextList]_vars

(* ------------------------------------------------------------------ *)
(* Properties of the lifecycle (specification Spec)                     *)
(* ------------------------------------------------------------------ *)
\* the ids generated so far whose row is gone: the deleted subscriptions
Deleted == (1 .. (nextId - 1)) \ DOMAIN table

\* C2: a successful Create returns a subscription with a newly generated id
\* that carries the input's fields, and a Get of that id right after it
\* returns serviceName, price, userId, startMonth and endMonth equal to the
\* input and the generated id.
CreateThenGet ==
    [][/\ (res'.op = "Create" /\ res'.err = ErrNone) =>
            /\ res'.sub.ID # ZeroSubscription.ID
            /\ res'.sub.ID \notin DOMAIN table
            /\ res'.sub.ID \notin Deleted
            /\ res'.sub.ID \in DOMAIN table'
       /\ (res.op = "Create" /\ res.err = ErrNone
           /\ res'.op = "Get" /\ res'.id = res.sub.ID) =>
            /\ res'.err = ErrNone
            /\ res'.sub.ID = res.sub.ID
            /\ res'.sub.ServiceName = res.input.ServiceName
            /\ res'.sub.Price = res.input.Price
            /\ res'.sub.UserID = res.input.UserID
            /\ res'.sub.StartMonth = res.input.StartMonth
            /\ res'.sub.EndMonth = res.input.EndMonth]_vars

\* a Get of the id generated last has returned a row with an end month
CreateThenGetWitness ==
    /\ res.op = "Get" /\ res.err = ErrNone
    /\ res.id = nextId - 1
    /\ res.sub.EndMonth # <<>>
    /\ res.sub.UserID = 2

\* C3: an Update of an id that is not in the table fails with NotFound, returns
\* the zero subscription, and leaves the table as it was.
UpdateMissingIsNotFound ==
    [][(res'.op = "Update" /\ res'.id \notin DOMAIN table) =>
            /\ res'.err = ErrNotFound
            /\ res'.sub = ZeroSubscription
            /\ table' = table]_vars

\* an Update has failed with NotFound while the table holds another row
UpdateMissingWitness ==
    /\ res.op = "Update" /\ res.err = ErrNotFound
    /\ res.id \notin DOMAIN table
    /\ TableCheck([ZeroSubscription EXCEPT !.Price = res.input.Price,
                                           !.StartMonth = res.input.StartMonth,
                                           !.EndMonth = res.input.EndMonth])
    /\ DOMAIN table # {}

\* C4: a successful Update sets the row's serviceName, price, startMonth and
\* endMonth to the input's (a nil endMonth clears the old one), keeps its id and
\* userId and every other row; no step ever changes the userId or id of a row.
UpdateReplacesFields ==
    [][/\ (res'.op = "Update" /\ res'.err = ErrNone) =>
            /\ res'.id \in DOMAIN table
            /\ DOMAIN table' = DOMAIN table
            /\ table'[res'.id] =
                   [ID |-> res'.id, UserID |-> table[res'.id].UserID,
                    ServiceName |-> res'.input.ServiceName,
                    Price |-> res'.input.Price,
                    StartMonth |-> res'.input.StartMonth,
                    EndMonth |-> res'.input.EndMonth]
            /\ res'.sub = table'[res'.id]
            /\ \A j \in DOMAIN table \ {res'.id} : table'[j] = table[j]
       /\ \A j \in DOMAIN table \cap DOMAIN table' :
            /\ table'[j].UserID = table[j].UserID
            /\ table'[j].ID = j /\ table[j].ID = j]_vars

\* an Update with a nil endMonth has succeeded on a row of user 2 beside another row
UpdateReplacesWitness ==
    /\ res.op = "Update" /\ res.err = ErrNone
    /\ res.input.EndMonth = <<>>
    /\ res.sub.UserID = 2
    /\ Cardinality(DOMAIN table) = 2

\* C5: a Delete of an id that is not in the table fails with NotFound and
\* changes nothing; a successful Delete removes that row and no other; a
\* deleted id never comes back, and every Get, Update and Delete of it fails
\* with NotFound.
DeleteIsFinal ==
    [][/\ (res'.op = "Delete" /\ res'.id \notin DOMAIN table) =>
            (res'.err = ErrNotFound /\ table' = table)
       /\ (res'.op = "Delete" /\ res'.err = ErrNone) =>
            /\ res'.id \in DOMAIN table
            /\ DOMAIN table' = DOMAIN table \ {res'.id}
            /\ \A j \in DOMAIN table' : table'[j] = table[j]
       /\ \A id \in Deleted :
            /\ id \notin DOMAIN table'
            /\ (res'.op \in {"Get", "Update", "Delete"} /\ res'.id = id) =>
                   res'.err = ErrNotFound]_vars

\* a Get or an Update of a deleted id has failed while another row is stored
DeleteIsFinalWitness ==
    /\ res.op \in {"Get", "Update"} /\ res.err = ErrNotFound
    /\ res.id \in Deleted
    /\ DOMAIN table # {}

(* ------------------------------------------------------------------ *)
(* Properties of Sum (specification SpecSum)                            *)
(* ------------------------------------------------------------------ *)
\* a calendar month as a number: consecutive months are consecutive numbers
MonthIndex(t) == t.year * 12 + (t.month - 1)

Rows == {table[i] : i \in DOMAIN table}

FirstOfMonth(t) == t.day = 1

\* the rows of the table with the filter's userId and serviceName, when given
MatchesUserService(row, f) ==
    /\ (f.UserID = <<>> \/ f.UserID = <<row.UserID>>)
    /\ (f.ServiceName = <<>> \/ f.ServiceName = <<row.ServiceName>>)

\* the calendar months in both the row's interval and the window
SharedMonths(row, input) ==
    {k \in MonthIndex(input.PeriodStart) .. MonthIndex(input.PeriodEnd) :
        /\ MonthIndex(row.StartMonth) <= k
        /\ (row.EndMonth = <<>> \/ k <= MonthIndex(row.EndMonth[1]))}

\* the months from the later of the row's start and the window's start through
\* the window's end
ThroughPeriodEnd(row, input) ==
    {k \in MonthIndex(input.PeriodStart) .. MonthIndex(input.PeriodEnd) :
        MonthIndex(row.StartMonth) <= k}

\* the claim's count: overlapStart is the later start, effectiveEnd the earlier end
CountedMonths(row, input) ==
    LET overlapStart == IF MonthIndex(row.StartMonth) > MonthIndex(input.PeriodStart)
                        THEN row.StartMonth ELSE input.PeriodStart
        effectiveEnd == IF row.EndMonth # <<>>
                           /\ MonthIndex(row.EndMonth[1]) < MonthIndex(input.PeriodEnd)
                        THEN row.EndMonth[1] ELSE input.PeriodEnd
    IN (effectiveEnd.year - overlapStart.year) * 12
       + (effectiveEnd.month - overlapStart.month) + 1

RECURSIVE ExpectedTotal(_, _)
ExpectedTotal(rows, input) ==
    IF rows = {}
    THEN 0
    ELSE LET r == CHOOSE x \in rows : TRUE
         IN r.Price * Cardinality(SharedMonths(r, input))
            + ExpectedTotal(rows \ {r}, input)

RECURSIVE TotalThroughPeriodEnd(_, _)
TotalThroughPeriodEnd(subs, input) ==
    IF subs = <<>>
    THEN 0
    ELSE Head(subs).Price * Cardinality(ThroughPeriodEnd(Head(subs), input))
         + TotalThroughPeriodEnd(Tail(subs), input)

\* C1: for a window with periodStart <= periodEnd and first-of-month dates,
\* Sum returns the sum over the rows with the filter's userId/serviceName of
\* price times the number of calendar months the row's interval shares with
\* the window, that number being (effectiveEnd.year - overlapStart.year) * 12
\* + (effectiveEnd.month - overlapStart.month) + 1 whenever a month is shared.
SumIsPriceTimesSharedMonths ==
    (/\ res.op = "Sum"
     /\ ~Before(res.input.PeriodEnd, res.input.PeriodStart)
     /\ FirstOfMonth(res.input.PeriodStart) /\ FirstOfMonth(res.input.PeriodEnd)
     /\ \A row \in Rows :
            /\ FirstOfMonth(row.StartMonth)
            /\ (row.EndMonth # <<>> => FirstOfMonth(row.EndMonth[1])))
    => /\ res.err = ErrNone
       /\ res.total =
              ExpectedTotal({row \in Rows : MatchesUserService(row, res.input)},
                            res.input)
       /\ \A row \in Rows :
              SharedMonths(row, res.input) # {} =>
                  Cardinality(SharedMonths(row, res.input))
                      = CountedMonths(row, res.input)

\* Sum has billed two rows of different prices for a window that spans the turn
\* of the year: one ends inside the window, the other starts inside it and is
\* open-ended
SumWitness ==
    /\ res.op = "Sum"
    /\ res.input.PeriodStart.year < res.input.PeriodEnd.year
    /\ Len(res.subs) = 2
    /\ \E i, j \in DOMAIN res.subs :
          /\ res.subs[i].EndMonth = <<>>
          /\ After(res.subs[i].StartMonth, res.input.PeriodStart)
          /\ res.subs[j].EndMonth # <<>>
          /\ Before(res.subs[j].EndMonth[1], res.input.PeriodEnd)
          /\ res.subs[i].Price # res.subs[j].Price
    /\ res.total >= 4

\* the example of an open-ended subscription: price 100 from 2023-01 on
ExampleOpenEnded ==
    [ID |-> 1, ServiceName |-> "netflix", Price |-> 100, UserID |-> 1,
     StartMonth |-> [year |-> 2023, month |-> 1, day |-> 1], EndMonth |-> <<>>]

ExampleQuarter ==
    [UserID |-> <<>>, ServiceName |-> <<>>,
     PeriodStart |-> [year |-> 2023, month |-> 1, day |-> 1],
     PeriodEnd |-> [year |-> 2023, month |-> 3, day |-> 1]]

\* C6: Sum never bills a candidate for a month after periodEnd: the total is
\* at most the sum of price times the months from max(startMonth, periodStart)
\* through periodEnd, and it is exactly that when every candidate is open-ended
\* or ends at or after periodEnd; price 100 from 2023-01 with no end gives 300
\* for the window 2023-01..2023-03.
SumStopsAtPeriodEnd ==
    /\ res.op = "Sum" =>
          /\ res.total <= TotalThroughPeriodEnd(res.subs, res.input)
          /\ (\A i \in DOMAIN res.subs :
                  \/ res.subs[i].EndMonth = <<>>
                  \/ ~Before(res.subs[i].EndMonth[1], res.input.PeriodEnd))
             => res.total = TotalThroughPeriodEnd(res.subs, res.input)
    /\ \A subs \in ListSubscriptions(<<ExampleOpenEnded>>, SumListFilter(ExampleQuarter)) :
          /\ subs = <<ExampleOpenEnded>>
          /\ SumResult(subs, ExampleQuarter) = [total |-> 300, err |-> ErrNone]

\* Sum has billed an open-ended row that started before the window and a row
\* whose end month is after the window's end
SumStopsWitness ==
    /\ res.op = "Sum"
    /\ Len(res.subs) = 2
    /\ \E i, j \in DOMAIN res.subs :
          /\ res.subs[i].EndMonth = <<>>
          /\ Before(res.subs[i].StartMonth, res.input.PeriodStart)
          /\ res.subs[j].EndMonth # <<>>
          /\ After(res.subs[j].EndMonth[1], res.input.PeriodEnd)
    /\ res.total = TotalThroughPeriodEnd(res.subs, res.input)
    /\ res.total > 0

\* the ListFilter of Sum without the active period: a Repository that does not
\* pre-filter on the overlap
SumListFilterNoOverlap(input) ==
    [SumListFilter(input) EXCEPT !.ActivePeriodFrom = <<>>, !.ActivePeriodTo = <<>>]

\* C7: a row that starts after periodEnd or ends before periodStart is billed
\* zero months, no row is billed a negative number of months, and the total of
\* Sum equals the total of its loop over every row with the filter's
\* userId/serviceName, pre-filtered on the overlap or not.
SumNeedsNoPrefilter ==
    res.op = "Sum" =>
        /\ \A row \in {r \in Rows : MatchesUserService(r, res.input)} :
              /\ BilledMonths(row, res.input) >= 0
              /\ (\/ MonthIndex(row.StartMonth) > MonthIndex(res.input.PeriodEnd)
                  \/ /\ row.EndMonth # <<>>
                     /\ MonthIndex(row.EndMonth[1]) < MonthIndex(res.input.PeriodStart))
                 => BilledMonths(row, res.input) = 0
        /\ \A subs \in ListSubscriptions(table, SumListFilterNoOverlap(res.input)) :
              /\ {subs[i] : i \in DOMAIN subs}
                     = {r \in Rows : MatchesUserService(r, res.input)}
              /\ SumResult(subs, res.input).total = res.total
              /\ SumResult(subs, res.input).err = res.err

\* Sum has billed one row while the pre-filter kept out a row of the same user
\* and service that ended before the window
SumNoPrefilterWitness ==
    /\ res.op = "Sum"
    /\ Len(res.subs) = 1
    /\ res.total > 0
    /\ \E row \in Rows :
          /\ MatchesUserService(row, res.input)
          /\ row.EndMonth # <<>>
          /\ Before(row.EndMonth[1], res.input.PeriodStart)
    /\ res.input.UserID # <<>>

\* C8: when no row has the filter's userId/serviceName and a month in the
\* window (an empty table included), Sum returns 0 and no error.
SumOfNothingIsZero ==
    (/\ res.op = "Sum"
     /\ \A row \in Rows :
            ~(MatchesUserService(row, res.input) /\ SharedMonths(row, res.input) # {}))
    => (res.total = 0 /\ res.err = ErrNone)

\* Sum has run on a table of two rows none of which matches the filter
SumOfNothingWitness ==
    /\ res.op = "Sum"
    /\ Cardinality(Rows) = 2
    /\ ~Before(res.input.PeriodEnd, res.input.PeriodStart)
    /\ res.input.ServiceName # <<>>
    /\ \A row \in Rows :
          ~(MatchesUserService(row, res.input) /\ SharedMonths(row, res.input) # {})
    /\ \E row \in Rows : SharedMonths(row, res.input) # {}
    /\ \E row \in Rows : MatchesUserService(row, res.input)
    /\ res.total = 0

(* ------------------------------------------------------------------ *)
(* Properties of List (specification SpecList)                          *)
(* ------------------------------------------------------------------ *)
\* the conditions on userId, serviceName and the start month range, each only
\* when the filter supplies it, bounds included
PassesBasicFilters(row, f) ==
    /\ MatchesUserService(row, f)
    /\ (f.StartMonthFrom = <<>>
        \/ MonthIndex(row.StartMonth) >= MonthIndex(f.StartMonthFrom[1]))
    /\ (f.StartMonthTo = <<>>
        \/ MonthIndex(row.StartMonth) <= MonthIndex(f.StartMonthTo[1]))

\* startMonth <= activePeriodTo and (endMonth absent or endMonth >= activePeriodFrom)
OverlapsActivePeriod(row, f) ==
    /\ MonthIndex(row.StartMonth) <= MonthIndex(f.ActivePeriodTo[1])
    /\ (row.EndMonth = <<>>
        \/ MonthIndex(row.EndMonth[1]) >= MonthIndex(f.ActivePeriodFrom[1]))

BothActivePeriodEnds(f) == f.ActivePeriodFrom # <<>> /\ f.ActivePeriodTo # <<>>

Unpaginated(f) == f.Limit = 0 /\ f.Offset = 0

\* the sequence holds exactly the rows of S, each once
HoldsExactly(subs, S) ==
    /\ {subs[i] : i \in DOMAIN subs} = S
    /\ Len(subs) = Cardinality(S)

AnyFilter ==
    [UserID |-> <<>>, ServiceName |-> <<>>, StartMonthFrom |-> <<>>,
     StartMonthTo |-> <<>>, ActivePeriodFrom |-> <<>>, ActivePeriodTo |-> <<>>,
     Limit |-> 0, Offset |-> 0]

\* the example: a subscription 2023-01..2023-06
ExampleHalfYear ==
    [ID |-> 1, ServiceName |-> "netflix", Price |-> 1, UserID |-> 1,
     StartMonth |-> [year |-> 2023, month |-> 1, day |-> 1],
     EndMonth |-> <<[year |-> 2023, month |-> 6, day |-> 1]>>]

ExampleActiveFrom(m) ==
    [AnyFilter EXCEPT !.ActivePeriodFrom = <<[year |-> 2023, month |-> m, day |-> 1]>>,
                      !.ActivePeriodTo = <<[year |-> 2023, month |-> 12, day |-> 1]>>]

\* C9: with both activePeriodFrom and activePeriodTo supplied, every row List
\* returns passes the filters on userId, serviceName and the start range and has
\* startMonth <= activePeriodTo and (no endMonth or endMonth >= activePeriodFrom),
\* and without limit and offset List returns exactly those rows; the
\* subscription 2023-01..2023-06 is returned for 2023-05..2023-12 and not for
\* 2023-07..2023-12.
ListAppliesOverlap ==
    /\ (res.op = "List" /\ BothActivePeriodEnds(res.filter))
       => /\ res.err = ErrNone
          /\ \A i \in DOMAIN res.subs :
                /\ res.subs[i] \in Rows
                /\ PassesBasicFilters(res.subs[i], res.filter)
                /\ OverlapsActivePeriod(res.subs[i], res.filter)
          /\ Unpaginated(res.filter) =>
                HoldsExactly(res.subs,
                             {row \in Rows : /\ PassesBasicFilters(row, res.filter)
                                             /\ OverlapsActivePeriod(row, res.filter)})
    /\ ListSubscriptions(<<ExampleHalfYear>>, ExampleActiveFrom(5)) = {<<ExampleHalfYear>>}
    /\ ListSubscriptions(<<ExampleHalfYear>>, ExampleActiveFrom(7)) = {<<>>}

\* List with an active period has returned a row that ends in the period's
\* first month and has left out a row that ended before it
ListOverlapWitness ==
    /\ res.op = "List" /\ BothActivePeriodEnds(res.filter) /\ Unpaginated(res.filter)
    /\ Len(res.subs) = 1
    /\ res.subs[1].EndMonth = res.filter.ActivePeriodFrom
    /\ \E row \in Rows :
          /\ PassesBasicFilters(row, res.filter)
          /\ row.EndMonth # <<>>
          /\ Before(row.EndMonth[1], res.filter.ActivePeriodFrom[1])

\* C10: without pagination and without the pair of active period bounds, List
\* returns exactly the rows that satisfy the supplied conditions among userId,
\* serviceName, startMonth >= startMonthFrom and startMonth <= startMonthTo,
\* and the empty sequence with no error when there is none.
ListAppliesBasicFilters ==
    (res.op = "List" /\ ~BothActivePeriodEnds(res.filter) /\ Unpaginated(res.filter))
    => /\ res.err = ErrNone
       /\ HoldsExactly(res.subs, {row \in Rows : PassesBasicFilters(row, res.filter)})
       /\ ((\A row \in Rows : ~PassesBasicFilters(row, res.filter)) => res.subs = <<>>)

\* List has returned a row that starts in the first month of the requested
\* start range and has left out a row of another user
ListBasicWitness ==
    /\ res.op = "List" /\ ~BothActivePeriodEnds(res.filter) /\ Unpaginated(res.filter)
    /\ res.filter.UserID # <<>>
    /\ res.filter.StartMonthFrom # <<>> /\ res.filter.StartMonthTo # <<>>
    /\ Len(res.subs) = 1
    /\ res.subs[1].StartMonth = res.filter.StartMonthFrom[1]
    /\ Cardinality(Rows) = 2

(* ------------------------------------------------------------------ *)
(* Order and pagination of List (specification SpecPage): any number   *)
(* of List calls on a table of up to three rows, no write in between.  *)
(* ------------------------------------------------------------------ *)
PageMonths == {MonthAt(k) : k \in 1 .. NumPageMonths}

\* open-ended rows of one service: the start month and the user vary
PageRows ==
    {row \in RowsOver({1}, PageMonths) :
        row.ServiceName = "netflix" /\ row.EndMonth = <<>>}

PageTables ==
    UNION {{[i \in 1 .. n |-> [rows[i] EXCEPT !.ID = i]] :
                rows \in [1 .. n -> PageRows]} : n \in 0 .. 3}

PageFilters ==
    [UserID : {<<>>, <<1>>}, ServiceName : {<<>>}, StartMonthFrom : {<<>>},
     StartMonthTo : {<<>>}, ActivePeriodFrom : {<<>>}, ActivePeriodTo : {<<>>},
     Limit : 0 .. MaxPage, Offset : 0 .. MaxPage]

InitPage ==
    /\ table \in PageTables
    /\ nextId = Len(table) + 1
    /\ res = NoCall
    /\ clients = NoClients
    /\ migrator = NoMigrator

NextPage == \E filter \in PageFilters : List(filter)

SpecPage == InitPage /\ [][NextPage]_vars

\* the sequence is in ascending order of the start month
AscendingStartMonth(s) ==
    \A i, j \in DOMAIN s :
        i < j => MonthIndex(s[i].StartMonth) <= MonthIndex(s[j].StartMonth)

\* C11: the sequence List returns is ordered by startMonth ascending: of any
\* two returned subscriptions the earlier one has a startMonth less than or
\* equal to that of the later one.
ListIsOrdered ==
    res.op = "List" => AscendingStartMonth(res.subs)

\* List has returned three rows of three start months, the row inserted last
\* first
ListIsOrderedWitness ==
    /\ res.op = "List" /\ Len(res.subs) = 3
    /\ res.subs[1].ID = 3
    /\ MonthIndex(res.subs[1].StartMonth) < MonthIndex(res.subs[2].StartMonth)
    /\ MonthIndex(res.subs[2].StartMonth) < MonthIndex(res.subs[3].StartMonth)

\* C12: two List calls with the same filter and no Create, Update or Delete
\* between them return identical sequences in the same order, also when
\* several matching subscriptions share a startMonth and when limit and offset
\* are set.
ListIsRepeatable ==
    [][(res.op = "List" /\ res'.op = "List" /\ res'.filter = res.filter
        /\ table' = table)
       => res'.subs = res.subs]_vars

\* the elements at positions O .. O+L-1 of s (from 0), fewer when s is
\* shorter, and all from position O on when L = 0
PageOf(s, L, O) ==
    LET left == IF Len(s) > O THEN Len(s) - O ELSE 0
        n == IF L > 0 /\ L < left THEN L ELSE left
    IN [k \in 1 .. n |-> s[O + k]]

\* the rows of the table that pass the filter, in an ascending order
FilteredAscending(f) ==
    {s \in Orderings({row \in Rows : PassesBasicFilters(row, f)}) :
        AscendingStartMonth(s)}

\* C13: limit and offset are applied after filtering and ordering: with a limit
\* L > 0 and an offset O >= 0 List returns the elements at positions
\* O .. O+L-1 of the filtered sequence ordered by startMonth (fewer when it is
\* shorter), and with a limit of 0 every element from position O on.
ListPagesTheOrderedRows ==
    res.op = "List" =>
        \E s \in FilteredAscending(res.filter) :
            res.subs = PageOf(s, res.filter.Limit, res.filter.Offset)

\* limit 1 and offset 1 over three rows of three start months, only two of
\* them of the requested user, have returned the later of the two
ListPagesWitness ==
    /\ res.op = "List" /\ res.filter.Limit = 1 /\ res.filter.Offset = 1
    /\ res.filter.UserID = <<1>>
    /\ Len(table) = 3
    /\ Cardinality({row \in Rows : row.UserID = 1}) = 2
    /\ \A r1, r2 \in Rows : r1 # r2 => r1.StartMonth # r2.StartMonth
    /\ Len(res.subs) = 1
    /\ \E row \in Rows :
          /\ row.UserID = 1
          /\ MonthIndex(row.StartMonth) < MonthIndex(res.subs[1].StartMonth)
    /\ \E row \in Rows :
          /\ row.UserID = 2
          /\ MonthIndex(row.StartMonth) < MonthIndex(res.subs[1].StartMonth)

(* ------------------------------------------------------------------ *)
(* The constraints of the stored rows (specification Spec)              *)
(* ------------------------------------------------------------------ *)
\* price >= 0, and endMonth absent or not before startMonth
KeepsConstraints(x) ==
    /\ x.Price >= 0
    /\ (x.EndMonth = <<>> \/ MonthIndex(x.EndMonth[1]) >= MonthIndex(x.StartMonth))

\* C15: in every reachable state of the store every stored subscription has
\* price >= 0 and an endMonth that is absent or not earlier than its
\* startMonth; a Create or Update whose input would violate this fails with
\* an error and leaves the store unchanged.
StoreKeepsConstraints ==
    /\ [](\A row \in Rows : KeepsConstraints(row))
    /\ [][(res'.op \in {"Create", "Update"} /\ ~KeepsConstraints(res'.input))
           => (res'.err # ErrNone /\ table' = table)]_vars

\* an Update of a stored subscription with an endMonth before its startMonth
\* has failed with the error of the database
StoreKeepsConstraintsWitness ==
    /\ res.op = "Update" /\ res.id \in DOMAIN table
    /\ res.input.Price >= 0 /\ ~KeepsConstraints(res.input)
    /\ res.err = ErrStorage

(* ------------------------------------------------------------------ *)
(* The Service over a Repository whose calls may fail (specification   *)
(* SpecFaulty).  Each operation returns, next to its results, the      *)
(* Repository calls it has made.                                        *)
(* ------------------------------------------------------------------ *)
\* a call that fails in the driver: the adapter returns the zero value and
\* the wrapped error, the table is as it was
RepositoryDown(tbl) ==
    [table |-> tbl, sub |-> ZeroSubscription, subs |-> <<>>, err |-> ErrStorage]

ServiceCreate(tbl, newId, input, fails) ==
    LET r == IF fails THEN RepositoryDown(tbl)
             ELSE CreateSubscription(tbl, newId, input)
        call == [fn |-> "CreateSubscription", input |-> input, err |-> r.err]
    IN IF r.err # ErrNone
       THEN [table |-> r.table, sub |-> ZeroSubscription, err |-> r.err,
             calls |-> <<call>>]
       ELSE [table |-> r.table, sub |-> r.sub, err |-> ErrNone, calls |-> <<call>>]

\* variant: a failed GetSubscription is tried once more
ServiceGetRetries(tbl, id, fails) ==
    LET first == IF fails THEN RepositoryDown(tbl) ELSE GetSubscription(tbl, id)
        second == GetSubscription(tbl, id)
        call(r) == [fn |-> "GetSubscription", id |-> id, err |-> r.err]
    IN IF first.err = ErrNone
       THEN [sub |-> first.sub, err |-> ErrNone, calls |-> <<call(first)>>]
       ELSE IF second.err = ErrNone
       THEN [sub |-> second.sub, err |-> ErrNone,
             calls |-> <<call(first), call(second)>>]
       ELSE [sub |-> ZeroSubscription, err |-> second.err,
             calls |-> <<call(first), call(second)>>]

ServiceGet(tbl, id, fails) ==
    LET r == IF fails THEN RepositoryDown(tbl) ELSE GetSubscription(tbl, id)
        call == [fn |-> "GetSubscription", id |-> id, err |-> r.err]
    IN IF r.err # ErrNone
       THEN [sub |-> ZeroSubscription, err |-> r.err, calls |-> <<call>>]
       ELSE [sub |-> r.sub, err |-> ErrNone, calls |-> <<call>>]

\* variant: an Update that finds no row writes the row anew
ServiceUpdateCreatesMissing(tbl, id, input, fails) ==
    LET r == IF fails THEN RepositoryDown(tbl)
             ELSE UpdateSubscriptionUpsert(tbl, id, input)
        call == [fn |-> "UpdateSubscription", id |-> id, input |-> input,
                 err |-> r.err]
    IN IF r.err # ErrNone
       THEN [table |-> r.table, sub |-> ZeroSubscription, err |-> r.err,
             calls |-> <<call>>]
       ELSE [table |-> r.table, sub |-> r.sub, err |-> ErrNone, calls |-> <<call>>]

ServiceUpdate(tbl, id, input, fails) ==
    LET r == IF fails THEN RepositoryDown(tbl)
             ELSE UpdateSubscription(tbl, id, input)
        call == [fn |-> "UpdateSubscription", id |-> id, input |-> input,
                 err |-> r.err]
    IN IF r.err # ErrNone
       THEN [table |-> r.table, sub |-> ZeroSubscription, err |-> r.err,
             calls |-> <<call>>]
       ELSE [table |-> r.table, sub |-> r.sub, err |-> ErrNone, calls |-> <<call>>]

ServiceDelete(tbl, id, fails) ==
    LET r == IF fails THEN RepositoryDown(tbl) ELSE DeleteSubscription(tbl, id)
        call == [fn |-> "DeleteSubscription", id |-> id, err |-> r.err]
    IN [table |-> r.table, err |-> r.err, calls |-> <<call>>]

\* the answers ListSubscriptions may give: a failure or one of the results
RepositoryList(tbl, filter, fails) ==
    IF fails THEN {RepositoryDown(tbl)}
    ELSE {[subs |-> subs, err |-> ErrNone] : subs \in ListSubscriptions(tbl, filter)}

\* Service.List once the Repository has answered r
ServiceList(filter, r) ==
    LET call == [fn |-> "ListSubscriptions", filter |-> filter, err |-> r.err]
    IN IF r.err # ErrNone
       THEN [subs |-> <<>>, err |-> r.err, calls |-> <<call>>]
       ELSE [subs |-> r.subs, err |-> ErrNone, calls |-> <<call>>]

\* Service.Sum once the Repository has answered r
ServiceSum(input, r) ==
    LET call == [fn |-> "ListSubscriptions", filter |-> SumListFilter(input),
                 err |-> r.err]
    IN IF r.err # ErrNone
       THEN [total |-> 0, err |-> r.err, calls |-> <<call>>]
       ELSE [total |-> SumResult(r.subs, input).total,
             err |-> SumResult(r.subs, input).err, calls |-> <<call>>]

CallCreate(input, fails) ==
    /\ nextId \in IDs
    /\ LET r == ServiceCreate(table, nextId, input, fails)
       IN /\ table' = r.table
          /\ nextId' = IF r.err = ErrNone THEN nextId + 1 ELSE nextId
          /\ res' = [op |-> "Create", input |-> input, sub |-> r.sub,
                     err |-> r.err, calls |-> r.calls]
    /\ UNCHANGED <<clients, migrator>>

CallGet(id, fails) ==
    /\ LET r == ServiceGet(table, id, fails)
       IN res' = [op |-> "Get", id |-> id, sub |-> r.sub, err |-> r.err,
                  calls |-> r.calls]
    /\ UNCHANGED <<table, nextId, clients, migrator>>

CallUpdate(id, input, fails) ==
    /\ LET r == ServiceUpdate(table, id, input, fails)
       IN /\ table' = r.table
          /\ res' = [op |-> "Update", id |-> id, input |-> input, sub |-> r.sub,
                     err |-> r.err, calls |-> r.calls]
    /\ UNCHANGED <<nextId, clients, migrator>>

CallDelete(id, fails) ==
    /\ LET r == ServiceDelete(table, id, fails)
       IN /\ table' = r.table
          /\ res' = [op |-> "Delete", id |-> id, err |-> r.err, calls |-> r.calls]
    /\ UNCHANGED <<nextId, clients, migrator>>

CallList(filter, fails) ==
    /\ \E r \in RepositoryList(table, filter, fails) :
           res' = [op |-> "List", filter |-> filter,
                   subs |-> ServiceList(filter, r).subs,
                   err |-> ServiceList(filter, r).err,
                   calls |-> ServiceList(filter, r).calls]
    /\ UNCHANGED <<table, nextId, clients, migrator>>

CallSum(input, fails) ==
    /\ \E r \in RepositoryList(table, SumListFilter(input), fails) :
           res' = [op |-> "Sum", input |-> input,
                   total |-> ServiceSum(input, r).total,
                   err |-> ServiceSum(input, r).err,
                   calls |-> ServiceSum(input, r).calls]
    /\ UNCHANGED <<table, nextId, clients, migrator>>

\* the inputs of one user and one service: the price and the months vary
FaultyCreateInputs ==
    {input \in CreateInputs(Months) :
        input.ServiceName = "netflix" /\ input.UserID = 1 /\ input.Price # 0}

FaultyUpdateInputs ==
    {input \in UpdateInputs(Months) :
        input.ServiceName = "yandex" /\ input.Price # 0}

FaultyListFilters ==
    {f \in PageFilters : f.UserID = <<>> /\ f.Limit \in {0, 1} /\ f.Offset = 0}

FaultySummaryFilters ==
    [UserID : {<<>>}, ServiceName : {<<>>, <<"netflix">>},
     PeriodStart : {MonthAt(0)}, PeriodEnd : {MonthAt(1)}]

NextFaulty ==
    \/ \E input \in FaultyCreateInputs, fails \in BOOLEAN : CallCreate(input, fails)
    \/ \E id \in IDs, fails \in BOOLEAN : CallGet(id, fails)
    \/ \E id \in IDs, input \in FaultyUpdateInputs, fails \in BOOLEAN :
          CallUpdate(id, input, fails)
    \/ \E id \in IDs, fails \in BOOLEAN : CallDelete(id, fails)
    \/ \E filter \in FaultyListFilters, fails \in BOOLEAN : CallList(filter, fails)
    \/ \E input \in FaultySummaryFilters, fails \in BOOLEAN : CallSum(input, fails)

SpecFaulty == Init /\ [][NextFaulty]_vars

\* the Repository method an operation of the Service relies on
RepositoryMethod(op) ==
    CASE op = "Create" -> "CreateSubscription"
      [] op = "Get" -> "GetSubscription"
      [] op = "Update" -> "UpdateSubscription"
      [] op = "Delete" -> "DeleteSubscription"
      [] op \in {"List", "Sum"} -> "ListSubscriptions"

\* the zero subscription, the nil list, the total 0
EmptyResult(r) ==
    CASE r.op \in {"Create", "Get", "Update"} -> r.sub = ZeroSubscription
      [] r.op = "List" -> r.subs = <<>>
      [] r.op = "Sum" -> r.total = 0
      [] r.op = "Delete" -> TRUE

\* C14: every operation of the Service calls the Repository exactly once; when
\* that call fails the operation returns that same error (NotFound stays
\* NotFound) together with an empty result (the zero subscription, the nil
\* list or the total 0) and makes no second Repository call.
ServiceCallsRepositoryOnce ==
    res.op # "none" =>
        /\ Len(res.calls) = 1
        /\ res.calls[1].fn = RepositoryMethod(res.op)
        /\ res.err = res.calls[1].err
        /\ res.calls[1].err # ErrNone => EmptyResult(res)

\* a Get of a stored subscription has failed in the Repository, and the
\* Service has returned the error of that one call
ServiceCallsOnceWitness ==
    /\ res.op = "Get" /\ res.id \in DOMAIN table
    /\ Len(res.calls) = 1 /\ res.calls[1].err = ErrStorage
    /\ res.err = ErrStorage /\ res.sub = ZeroSubscription

(* ------------------------------------------------------------------ *)
(* The HTTP boundary of Create and Update (specification SpecBoundary): *)
(* the request body, toCreateInput / toUpdateInput, then the Service.   *)
(* ------------------------------------------------------------------ *)
\* uuid.Parse on the user_id strings of the requests: 36 characters, hex
\* digits and four hyphens
ParseUUID(str) ==
    CASE str = "00000000-0000-0000-0000-000000000001" -> [id |-> 1, ok |-> TRUE]
      [] str = "00000000-0000-0000-0000-000000000002" -> [id |-> 2, ok |-> TRUE]
      [] OTHER -> [id |-> 0, ok |-> FALSE]

\* time.Parse("01-2006", str) on the date strings of the requests
ParseMonth(str) ==
    CASE str = "12-2023" -> [t |-> [year |-> 2023, month |-> 12, day |-> 1], ok |-> TRUE]
      [] str = "01-2024" -> [t |-> [year |-> 2024, month |-> 1, day |-> 1], ok |-> TRUE]
      [] OTHER -> [t |-> ZeroTime, ok |-> FALSE]

\* subscriptionRequest: the decoded JSON body
Requests ==
    [ServiceName : {"netflix"}, Price : {-1, 1},
     UserID : {"00000000-0000-0000-0000-000000000001", "1"},
     StartDate : {"12-2023", "01-2024", "2024-01"},
     EndDate : Opt({"", "12-2023", "01-2024", "2024-01"})]

NoInput == [ServiceName |-> "", Price |-> 0, UserID |-> 0,
            StartMonth |-> ZeroTime, EndMonth |-> <<>>]

toCreateInput(r) ==
    IF ~ParseUUID(r.UserID).ok
    THEN [input |-> NoInput, err |-> "invalid user_id"]
    ELSE IF ~ParseMonth(r.StartDate).ok
    THEN [input |-> NoInput, err |-> "invalid start_date format, expected MM-YYYY"]
    ELSE IF r.EndDate # <<>> /\ r.EndDate[1] # "" /\ ~ParseMonth(r.EndDate[1]).ok
    THEN [input |-> NoInput, err |-> "invalid end_date format, expected MM-YYYY"]
    ELSE [input |-> [ServiceName |-> r.ServiceName, Price |-> r.Price,
                     UserID |-> ParseUUID(r.UserID).id,
                     StartMonth |-> ParseMonth(r.StartDate).t,
                     EndMonth |-> IF r.EndDate = <<>> \/ r.EndDate[1] = ""
                                  THEN <<>>
                                  ELSE <<ParseMonth(r.EndDate[1]).t>>],
          err |-> ErrNone]

toUpdateInput(r) ==
    LET c == toCreateInput(r)
    IN IF c.err # ErrNone
       THEN [input |-> [ServiceName |-> "", Price |-> 0, StartMonth |-> ZeroTime,
                        EndMonth |-> <<>>],
             err |-> c.err]
       ELSE [input |-> [ServiceName |-> c.input.ServiceName, Price |-> c.input.Price,
                        StartMonth |-> c.input.StartMonth,
                        EndMonth |-> c.input.EndMonth],
             err |-> ErrNone]

\* Handler.handleCreate: 400 without a Service call when toCreateInput fails
handleCreate(req) ==
    /\ nextId \in IDs
    /\ LET parsed == toCreateInput(req)
           r == ServiceCreate(table, nextId, parsed.input, FALSE)
       IN IF parsed.err # ErrNone
          THEN /\ res' = [op |-> "handleCreate", req |-> req, status |-> 400,
                          calls |-> <<>>]
               /\ UNCHANGED <<table, nextId>>
          ELSE /\ table' = r.table
               /\ nextId' = IF r.err = ErrNone THEN nextId + 1 ELSE nextId
               /\ res' = [op |-> "handleCreate", req |-> req,
                          status |-> IF r.err = ErrNone THEN 201 ELSE 500,
                          calls |-> r.calls]
    /\ UNCHANGED <<clients, migrator>>

\* Handler.handleUpdate
handleUpdate(id, req) ==
    /\ LET parsed == toUpdateInput(req)
           r == ServiceUpdate(table, id, parsed.input, FALSE)
       IN IF parsed.err # ErrNone
          THEN /\ res' = [op |-> "handleUpdate", id |-> id, req |-> req,
                          status |-> 400, calls |-> <<>>]
               /\ UNCHANGED table
          ELSE /\ table' = r.table
               /\ res' = [op |-> "handleUpdate", id |-> id, req |-> req,
                          status |-> IF r.err = ErrNone THEN 200
                                     ELSE IF r.err = ErrNotFound THEN 404 ELSE 500,
                          calls |-> r.calls]
    /\ UNCHANGED <<nextId, clients, migrator>>

NextBoundary ==
    \/ \E req \in Requests : handleCreate(req)
    \/ \E id \in IDs, req \in Requests : handleUpdate(id, req)

SpecBoundary == Init /\ [][NextBoundary]_vars

\* C16: a CreateInput or UpdateInput with price < 0 or with an endMonth
\* earlier than its startMonth is rejected before it reaches the Repository:
\* the path from toCreateInput / toUpdateInput through Service.Create /
\* Service.Update never calls CreateSubscription or UpdateSubscription with
\* such an input.
BoundaryRejectsInvalid ==
    res.op \in {"handleCreate", "handleUpdate"} =>
        \A i \in DOMAIN res.calls : KeepsConstraints(res.calls[i].input)

(* ------------------------------------------------------------------ *)
(* Sum over dates inside the month (specification SpecDays): the       *)
(* Service takes any time.Time and the DATE columns keep the day.       *)
(* ------------------------------------------------------------------ *)
DayDates ==
    {[MonthAt(k) EXCEPT !.day = d] : k \in 1 .. 2, d \in {1, 15}}

\* the windows whose end is not before their start
DaySummaryFilters ==
    {input \in [UserID : {<<>>}, ServiceName : {<<>>},
                PeriodStart : DayDates, PeriodEnd : DayDates] :
        DateLE(input.PeriodStart, input.PeriodEnd)}

\* the tables of at most one row
InitDays ==
    /\ table \in {t \in TablesOver({1}, DayDates) : Len(t) <= 1}
    /\ nextId = Len(table) + 1
    /\ res = NoCall
    /\ clients = NoClients
    /\ migrator = NoMigrator

NextDays ==
    /\ res = NoCall
    /\ \E input \in DaySummaryFilters : Sum(input)

SpecDays == InitDays /\ [][NextDays]_vars

\* the first day of the date's calendar month
StartOfMonth(t) == [t EXCEPT !.day = 1]

\* the table and the window with every date moved to the first of its month
TableAtStartOfMonth ==
    [i \in DOMAIN table |->
        [table[i] EXCEPT !.StartMonth = StartOfMonth(@),
                         !.EndMonth = IF @ = <<>> THEN <<>>
                                      ELSE <<StartOfMonth(@[1])>>]]

WindowAtStartOfMonth(input) ==
    [input EXCEPT !.PeriodStart = StartOfMonth(@), !.PeriodEnd = StartOfMonth(@)]

\* C17: Sum depends only on the calendar month of each date: replacing a
\* startMonth, endMonth, periodStart or periodEnd handed to the Service by
\* another date of the same calendar month changes neither the subscriptions
\* that are skipped nor the total; here the other date is the first of the
\* month.
SumIgnoresDayOfMonth ==
    res.op = "Sum" =>
        \A subs \in ListSubscriptions(TableAtStartOfMonth,
                                      SumListFilter(WindowAtStartOfMonth(res.input))) :
            SumResult(subs, WindowAtStartOfMonth(res.input)).total = res.total

(* ------------------------------------------------------------------ *)
(* Concurrent clients (specification SpecConcurrent).  Every HTTP       *)
(* request runs in a goroutine of its own; a Service call is entered,   *)
(* makes its one Repository call (one SQL statement, atomic in the      *)
(* database) and returns.  The clients work on the subscription 1.      *)
(* ------------------------------------------------------------------ *)
Clients == {1, 2, 3}

\* the stored subscription the clients work on
SharedRow ==
    [ID |-> 1, ServiceName |-> "netflix", Price |-> 1, UserID |-> 1,
     StartMonth |-> MonthAt(0), EndMonth |-> <<>>]

ConcurrentWindow ==
    [UserID |-> <<>>, ServiceName |-> <<>>,
     PeriodStart |-> MonthAt(0), PeriodEnd |-> MonthAt(1)]

\* the calls a client may make
ConcurrentCalls ==
    {[op |-> "Get", id |-> 1], [op |-> "Delete", id |-> 1],
     [op |-> "Update", id |-> 1,
      input |-> [ServiceName |-> "yandex", Price |-> 2,
                 StartMonth |-> MonthAt(0), EndMonth |-> <<>>]],
     [op |-> "Update", id |-> 1,
      input |-> [ServiceName |-> "netflix", Price |-> 1,
                 StartMonth |-> MonthAt(1), EndMonth |-> <<MonthAt(1)>>]],
     [op |-> "List", filter |-> SumListFilter(ConcurrentWindow)],
     [op |-> "Sum", input |-> ConcurrentWindow]}

Idle == [pc |-> "idle"]

InitConcurrent ==
    /\ table = <<SharedRow>>
    /\ nextId = 2
    /\ res = NoCall
    /\ clients = [c \in Clients |-> Idle]
    /\ migrator = NoMigrator

\* the Repository calls made so far
Answered == {c \in Clients : clients[c].pc \in {"answered", "done"}}

\* the client enters the Service
Enter(c, call) ==
    /\ clients[c].pc = "idle"
    /\ clients' = [clients EXCEPT ![c] = [pc |-> "entered", call |-> call]]
    /\ UNCHANGED <<table, nextId, res, migrator>>

\* what the Service has after its Repository call on tbl: the table the call
\* leaves and the answer (for List and Sum the rows, the loop comes after)
AfterRepository(tbl, call) ==
    CASE call.op = "Get" ->
            {[table |-> tbl, answer |-> ServiceGet(tbl, call.id, FALSE)]}
      [] call.op = "Delete" ->
            {[table |-> ServiceDelete(tbl, call.id, FALSE).table,
              answer |-> ServiceDelete(tbl, call.id, FALSE)]}
      [] call.op = "Update" ->
            {[table |-> ServiceUpdate(tbl, call.id, call.input, FALSE).table,
              answer |-> ServiceUpdate(tbl, call.id, call.input, FALSE)]}
      [] call.op = "List" ->
            {[table |-> tbl, answer |-> r] :
                r \in RepositoryList(tbl, call.filter, FALSE)}
      [] call.op = "Sum" ->
            {[table |-> tbl, answer |-> r] :
                r \in RepositoryList(tbl, SumListFilter(call.input), FALSE)}

\* what the Service returns once the Repository has answered
Returned(call, answer) ==
    CASE call.op \in {"Get", "Update"} -> [sub |-> answer.sub, err |-> answer.err]
      [] call.op = "Delete" -> [err |-> answer.err]
      [] call.op = "List" ->
            [subs |-> ServiceList(call.filter, answer).subs,
             err |-> ServiceList(call.filter, answer).err]
      [] call.op = "Sum" ->
            [total |-> ServiceSum(call.input, answer).total,
             err |-> ServiceSum(call.input, answer).err]

\* the Repository call of the client: one statement on the table; seen and
\* at record the table it ran on and its place among the Repository calls
Repository(c) ==
    /\ clients[c].pc = "entered"
    /\ \E a \in AfterRepository(table, clients[c].call) :
          /\ table' = a.table
          /\ clients' = [clients EXCEPT ![c] =
                            [pc |-> "answered", call |-> clients[c].call,
                             answer |-> a.answer, seen |-> table,
                             at |-> Cardinality(Answered) + 1]]
    /\ UNCHANGED <<nextId, res, migrator>>

\* the Service returns to the client
Return(c) ==
    /\ clients[c].pc = "answered"
    /\ clients' = [clients EXCEPT ![c] =
                      [pc |-> "done", call |-> clients[c].call,
                       answer |-> clients[c].answer,
                       result |-> Returned(clients[c].call, clients[c].answer),
                       seen |-> clients[c].seen, at |-> clients[c].at]]
    /\ UNCHANGED <<table, nextId, res, migrator>>

NextConcurrent ==
    \/ \E c \in Clients, call \in ConcurrentCalls : Enter(c, call)
    \/ \E c \in Clients : Repository(c)
    \/ \E c \in Clients : Return(c)

SpecConcurrent == InitConcurrent /\ [][NextConcurrent]_vars

\* the table after the first k calls of the order have run one after another
RECURSIVE SerialTable(_, _)
SerialTable(order, k) ==
    IF k = 0
    THEN <<SharedRow>>
    ELSE (CHOOSE a \in AfterRepository(SerialTable(order, k - 1),
                                       clients[order[k]].call) : TRUE).table

\* run one after another in this order, the calls return what the clients
\* got and leave the table as it is now
SerialOrderExplains(order) ==
    /\ \A k \in DOMAIN order :
          \E a \in AfterRepository(SerialTable(order, k - 1), clients[order[k]].call) :
              Returned(clients[order[k]].call, a.answer) = clients[order[k]].result
    /\ SerialTable(order, Len(order)) = table

RowsOf(tbl) == {tbl[i] : i \in DOMAIN tbl}

\* C18: under any interleaving of concurrent Service calls on the same
\* subscription id, each Repository call being atomic, the results and the
\* final store are those of some serial order of the calls; once a Delete of
\* the id has succeeded no concurrent or later Update of it succeeds or makes
\* the record reappear; a Sum or List that runs concurrently with writes is
\* computed from one single snapshot of the store.
ConcurrentCallsAreSerial ==
    /\ (\A c \in Clients : clients[c].pc = "done")
       => \E order \in Orderings(Clients) : SerialOrderExplains(order)
    /\ \A c \in Answered :
          (clients[c].call.op = "Delete" /\ clients[c].answer.err = ErrNone)
          => /\ clients[c].call.id \notin DOMAIN table
             /\ \A d \in Answered :
                   (/\ clients[d].call.op = "Update"
                    /\ clients[d].call.id = clients[c].call.id
                    /\ clients[d].at > clients[c].at)
                   => clients[d].answer.err = ErrNotFound
    /\ \A c \in Clients :
          clients[c].pc = "done" =>
             /\ clients[c].call.op = "Sum" =>
                   clients[c].result.total =
                       ExpectedTotal(RowsOf(clients[c].seen), clients[c].call.input)
             /\ clients[c].call.op = "List" =>
                   HoldsExactly(clients[c].result.subs,
                                {row \in RowsOf(clients[c].seen) :
                                    OverlapsActivePeriod(row, clients[c].call.filter)})

\* a Sum has read the subscription, then a Delete has removed it, then an
\* Update has found nothing: the Sum returns the total of what it read, after
\* the record is gone
ConcurrentWitness ==
    \E c, d, u \in Clients :
        /\ \A x \in Clients : clients[x].pc = "done"
        /\ clients[c].call.op = "Sum" /\ clients[c].at = 1
        /\ clients[c].result.total = 2
        /\ clients[d].call.op = "Delete" /\ clients[d].at = 2
        /\ clients[d].result.err = ErrNone
        /\ clients[u].call.op = "Update" /\ clients[u].at = 3
        /\ clients[u].result.err = ErrNotFound
        /\ table = <<>>

(* ------------------------------------------------------------------ *)
(* cmd/migrator (specification SpecMigrate): runs of runMigrations on  *)
(* one database, one after another.  A version is the name of its file *)
(* without .up.sql; the versions are numbered in the order of names.    *)
(* ------------------------------------------------------------------ *)
Versions == 1 .. NumMigrations

\* sort.Strings: the names in ascending order
RECURSIVE SortStrings(_)
SortStrings(S) ==
    IF S = {}
    THEN <<>>
    ELSE LET least == CHOOSE x \in S : \A y \in S : x <= y
         IN <<least>> \o SortStrings(S \ {least})

\* schema: the versions in schema_migrations; executed: how often the
\* statements of each file have been run to the end; files, applied, log:
\* the files still to visit, the versions loaded at the start and the
\* versions executed, all of the current run; err: the run has returned an error
InitMigrate ==
    /\ table = <<>>
    /\ nextId = 1
    /\ res = NoCall
    /\ clients = NoClients
    /\ migrator = [pc |-> "idle", schema |-> {}, executed |-> [v \in Versions |-> 0],
                   runs |-> 0, files |-> <<>>, applied |-> {}, log |-> <<>>,
                   err |-> FALSE]

\* runMigrations up to the loop: the files sorted, the applied versions loaded
StartRun ==
    /\ migrator.pc = "idle"
    /\ migrator.runs < MaxRuns
    /\ migrator' = [migrator EXCEPT !.pc = "loop", !.runs = @ + 1,
                                    !.files = SortStrings(Versions),
                                    !.applied = migrator.schema,
                                    !.log = <<>>, !.err = FALSE]
    /\ UNCHANGED <<table, nextId, res, clients>>

\* a version found in applied is skipped
SkipApplied ==
    /\ migrator.pc = "loop" /\ migrator.files # <<>>
    /\ Head(migrator.files) \in migrator.applied
    /\ migrator' = [migrator EXCEPT !.files = Tail(@)]
    /\ UNCHANGED <<table, nextId, res, clients>>

\* execMigration: the statements run, or the run returns the error
ExecMigration(ok) ==
    /\ migrator.pc = "loop" /\ migrator.files # <<>>
    /\ Head(migrator.files) \notin migrator.applied
    /\ migrator' = IF ok
                   THEN [migrator EXCEPT !.pc = "mark",
                                         !.executed[Head(migrator.files)] = @ + 1,
                                         !.log = Append(@, Head(migrator.files))]
                   ELSE [migrator EXCEPT !.pc = "idle", !.err = TRUE]
    /\ UNCHANGED <<table, nextId, res, clients>>

\* markMigrationApplied: a statement of its own after execMigration; when it
\* fails, or the process stops before it, the version stays unrecorded
MarkMigrationApplied(ok) ==
    /\ migrator.pc = "mark"
    /\ migrator' = IF ok
                   THEN [migrator EXCEPT !.pc = "loop",
                                         !.schema = @ \cup {Head(migrator.files)},
                                         !.files = Tail(@)]
                   ELSE [migrator EXCEPT !.pc = "idle", !.err = TRUE]
    /\ UNCHANGED <<table, nextId, res, clients>>

\* the loop is over: runMigrations returns nil
EndRun ==
    /\ migrator.pc = "loop" /\ migrator.files = <<>>
    /\ migrator' = [migrator EXCEPT !.pc = "idle"]
    /\ UNCHANGED <<table, nextId, res, clients>>

NextMigrate ==
    \/ StartRun
    \/ SkipApplied
    \/ \E ok \in BOOLEAN : ExecMigration(ok)
    \/ \E ok \in BOOLEAN : MarkMigrationApplied(ok)
    \/ EndRun

SpecMigrate == InitMigrate /\ [][NextMigrate]_vars

\* within a run: the executed versions ascend, none was recorded when the run
\* began, and a run that has returned executes nothing more
RunIsOrdered ==
    /\ [](/\ \A i, j \in DOMAIN migrator.log :
                i < j => migrator.log[i] < migrator.log[j]
          /\ \A i \in DOMAIN migrator.log : migrator.log[i] \notin migrator.applied)
    /\ [][(migrator.pc = "idle" /\ migrator'.runs = migrator.runs)
           => migrator'.executed = migrator.executed]_vars

\* C19: across any sequence of runs of runMigrations, runs that stop at a
\* failure between executing a migration and recording it included, every
\* .up.sql migration is executed at most once; within one run the pending
\* migrations are executed in ascending order of file name, a recorded
\* version is skipped, and the first failure stops the run.
MigrationsRunAtMostOnce ==
    /\ [](\A v \in Versions : migrator.executed[v] <= 1)
    /\ RunIsOrdered

====
